---- MODULE Spec2Model ----
(***************************************************************************)
(* Query classification, batch projection, structural-consistency scoring  *)
(* and the list-view registry protocol of schema-sheets-cli.               *)
(*                                                                         *)
(* A text is a sequence of one-character strings.  A JSON value is a       *)
(* record [type, keys]; only the type and the ordered keys of an object    *)
(* are read by the code modelled here.                                     *)
(***************************************************************************)
EXTENDS Integers, Sequences, FiniteSets, TLC

VARIABLES
    \* --- classification (sheet-operations.mjs analyzeListViewQuery)
    queryText,      \* the text handed to analyzeListViewQuery
    origin,         \* how the text was built (what the caller knows about it)
    analysis,       \* the ClassificationResult of the last call
    cpc,            \* "input" before the call, "done" after it
    \* --- batch projection (display.mjs applyListViewQuery)
    projRows,       \* the input rows
    engine,         \* per row, what the expression engine does on it
    engineLoads,    \* whether the dynamic import of the engine succeeds
    transformedRows,\* the returned rows
    ppc,            \* "input" before the call, "done" after it
    \* --- consistency scoring (display.mjs analyzeQueryResults)
    anRows,         \* the rows handed to analyzeQueryResults
    consistency,    \* the ConsistencyResult of the last call
    apc,            \* "input" before the call, "done" after it
    \* --- the query registry and the menus of each writer (row-menu.mjs)
    store,          \* queryId -> the stored QueryDefinition, or NoEntry
    nextId,         \* the queryId the registry assigns to the next add
    menu,           \* writer -> where it is in the menus: pc, the handler it runs,
                    \*           the schema, its snapshot of the candidate (query),
                    \*           the holder it looked up (existing), and the flag
                    \*           the create/save path will store (isListView)
    hist,           \* writer -> history of its current run, read by the
                    \*           properties only: the writes it issued, the
                    \*           confirmation it declined ("anyway", "replace"),
                    \*           whether it proceeded with an invalid expression,
                    \*           whether its clearing update completed, the
                    \*           queryId it wrote the flag for, whether another
                    \*           writer wrote after its clear, and the definition
                    \*           another writer flagged between its lookup and
                    \*           its own flag write
    \* --- the list-view lookup (sheet-operations.mjs getListViewQuery)
    glv,            \* what the getListViewQuery call returned
    lookup,         \* "input" before the call, "done" after it, "idle" otherwise
    \* --- the setting of a run, fixed when it starts
    setting         \* faults: whether calls of the backing store can fail;
                    \* exclusive: whether the run started from a registry with
                    \* at most one flagged definition per schema

classifyVars == <<queryText, origin, analysis, cpc>>
projectVars == <<projRows, engine, engineLoads, transformedRows, ppc>>
analyzeVars == <<anRows, consistency, apc>>
registryVars == <<store, nextId, menu, hist, glv, lookup, setting>>
vars == <<classifyVars, projectVars, analyzeVars, registryVars>>

NotRun == "<not run>"
Absent == "<absent>"

(***************************************************************************)
(* Characters                                                              *)
(***************************************************************************)
Letters ==
    {"a","b","c","d","e","f","g","h","i","j","k","l","m","n","o","p","q","r",
     "s","t","u","v","w","x","y","z","A","B","C","D","E","F","G","H","I","J",
     "K","L","M","N","O","P","Q","R","S","T","U","V","W","X","Y","Z"}

Digits == {"0","1","2","3","4","5","6","7","8","9"}

\* [a-zA-Z_]
IsIdentStart(c) == c \in Letters \cup {"_"}

\* [a-zA-Z0-9_]
IsIdentPart(c) == c \in Letters \cup Digits \cup {"_"}

\* the characters String.prototype.trim removes
IsSpace(c) == c \in {" ", "\t", "\n", "\r"}

RECURSIVE TrimLeft(_)
TrimLeft(s) ==
    IF s # <<>> /\ IsSpace(Head(s)) THEN TrimLeft(Tail(s)) ELSE s

RECURSIVE TrimRight(_)
TrimRight(s) ==
    IF s # <<>> /\ IsSpace(s[Len(s)]) THEN TrimRight(SubSeq(s, 1, Len(s) - 1)) ELSE s

TrimLeadingOnly(s) == TrimLeft(s)

\* String.prototype.trim
Trim(s) == TrimRight(TrimLeft(s))

\* /^[a-zA-Z_][a-zA-Z0-9_]*(\.[a-zA-Z_][a-zA-Z0-9_]*)*$/ as a scan: the state is
\* "start" (an identifier must begin here) or "ident" (inside an identifier).
RECURSIVE PathScan(_, _, _)
PathScan(s, i, st) ==
    IF i > Len(s) THEN st = "ident"
    ELSE IF st = "start" THEN IsIdentStart(s[i]) /\ PathScan(s, i + 1, "ident")
    ELSE IF IsIdentPart(s[i]) THEN PathScan(s, i + 1, "ident")
    ELSE s[i] = "." /\ PathScan(s, i + 1, "start")

\* the pattern without its dotted continuation: /^[a-zA-Z_][a-zA-Z0-9_]*$/
MatchesSimplePropertyNoDots(s) ==
    /\ s # <<>>
    /\ IsIdentStart(s[1])
    /\ \A i \in 1..Len(s) : IsIdentPart(s[i])

MatchesSimpleProperty(s) == PathScan(s, 1, "start")

NoMatch == [matched |-> FALSE, group |-> <<>>]

\* /^\[\]\.?\{([^}]+)\}$/ : whether it matches, and the captured group
ObjectProjectionMatch(q) ==
    LET n == Len(q)
        open == IF n >= 3 /\ q[1] = "[" /\ q[2] = "]"
                THEN IF q[3] = "." /\ n >= 4 /\ q[4] = "{" THEN 4
                     ELSE IF q[3] = "{" THEN 3 ELSE 0
                ELSE 0
    IN  IF open > 0 /\ n >= open + 2 /\ q[n] = "}"
           /\ \A i \in (open + 1)..(n - 1) : q[i] # "}"
        THEN [matched |-> TRUE, group |-> SubSeq(q, open + 1, n - 1)]
        ELSE NoMatch

\* /^\[([^\]]+)\]$/ : whether it matches, and the captured group
ArrayMatch(q) ==
    LET n == Len(q)
    IN  IF n >= 3 /\ q[1] = "[" /\ q[n] = "]" /\ \A i \in 2..(n - 1) : q[i] # "]"
        THEN [matched |-> TRUE, group |-> SubSeq(q, 2, n - 1)]
        ELSE NoMatch

\* String.prototype.split(',') : the pieces between commas, empty ones kept
RECURSIVE SplitComma(_, _, _)
SplitComma(s, i, cur) ==
    IF i > Len(s) THEN <<cur>>
    ELSE IF s[i] = "," THEN <<cur>> \o SplitComma(s, i + 1, <<>>)
    ELSE SplitComma(s, i + 1, Append(cur, s[i]))

\* the guard with || in place of &&
PushPairEitherPart(st) ==
    IF Trim(st.currentKey) # <<>> \/ Trim(st.currentValue) # <<>>
    THEN Append(st.columns, [key |-> Trim(st.currentKey), expression |-> Trim(st.currentValue)])
    ELSE st.columns

\* columns.push({key, expression}) guarded by both trimmed parts being non-empty
PushPair(st) ==
    IF Trim(st.currentKey) # <<>> /\ Trim(st.currentValue) # <<>>
    THEN Append(st.columns, [key |-> Trim(st.currentKey), expression |-> Trim(st.currentValue)])
    ELSE st.columns

ScanInit ==
    [columns |-> <<>>, currentKey |-> <<>>, currentValue |-> <<>>, inKey |-> TRUE,
     braceDepth |-> 0, bracketDepth |-> 0, inQuotes |-> FALSE, quoteChar |-> ""]

ScanCharIgnoringBrackets(content, i, st) ==
    LET char == content[i]
        prevChar == IF i > 1 THEN content[i - 1] ELSE ""
        isQuote == char \in {"\"", "'"} /\ prevChar # "\\"
        q == IF isQuote /\ ~st.inQuotes
             THEN [st EXCEPT !.inQuotes = TRUE, !.quoteChar = char]
             ELSE IF isQuote /\ char = st.quoteChar
             THEN [st EXCEPT !.inQuotes = FALSE, !.quoteChar = ""]
             ELSE st
        d == IF q.inQuotes THEN q
             ELSE IF char = "{" THEN [q EXCEPT !.braceDepth = @ + 1]
             ELSE IF char = "}" THEN [q EXCEPT !.braceDepth = @ - 1]
             ELSE q
        top == ~d.inQuotes /\ d.braceDepth = 0
    IN  IF top /\ char = ":" /\ d.inKey
        THEN [d EXCEPT !.inKey = FALSE]
        ELSE IF top /\ char = ","
        THEN [d EXCEPT !.columns = PushPair(d), !.currentKey = <<>>,
                       !.currentValue = <<>>, !.inKey = TRUE]
        ELSE IF d.inKey
        THEN [d EXCEPT !.currentKey = Append(@, char)]
        ELSE [d EXCEPT !.currentValue = Append(@, char)]

\* one iteration of the for loop over objectContent
ScanChar(content, i, st) ==
    LET char == content[i]
        prevChar == IF i > 1 THEN content[i - 1] ELSE ""
        isQuote == char \in {"\"", "'"} /\ prevChar # "\\"
        q == IF isQuote /\ ~st.inQuotes
             THEN [st EXCEPT !.inQuotes = TRUE, !.quoteChar = char]
             ELSE IF isQuote /\ char = st.quoteChar
             THEN [st EXCEPT !.inQuotes = FALSE, !.quoteChar = ""]
             ELSE st
        d == IF q.inQuotes THEN q
             ELSE IF char = "{" THEN [q EXCEPT !.braceDepth = @ + 1]
             ELSE IF char = "}" THEN [q EXCEPT !.braceDepth = @ - 1]
             ELSE IF char = "[" THEN [q EXCEPT !.bracketDepth = @ + 1]
             ELSE IF char = "]" THEN [q EXCEPT !.bracketDepth = @ - 1]
             ELSE q
        top == ~d.inQuotes /\ d.braceDepth = 0 /\ d.bracketDepth = 0
    IN  IF top /\ char = ":" /\ d.inKey
        THEN [d EXCEPT !.inKey = FALSE]
        ELSE IF top /\ char = ","
        THEN [d EXCEPT !.columns = PushPair(d), !.currentKey = <<>>,
                       !.currentValue = <<>>, !.inKey = TRUE]
        ELSE IF d.inKey
        THEN [d EXCEPT !.currentKey = Append(@, char)]
        ELSE [d EXCEPT !.currentValue = Append(@, char)]

RECURSIVE ScanFrom(_, _, _)
ScanFrom(content, i, st) ==
    IF i > Len(content) THEN st
    ELSE LET next == ScanChar(content, i, st)
         IN  \* both branches are the loop's next iteration; the test makes the
             \* state of this iteration a value before the next one starts
             IF next.inKey THEN ScanFrom(content, i + 1, next)
             ELSE ScanFrom(content, i + 1, next)

\* the pairs the object-projection branch extracts, the last pair included
ParseObjectContent(content) == PushPair(ScanFrom(content, 1, ScanInit))

\* whether a statement of the try block around the scan throws: indexing a
\* string, comparing characters, trim and push do not, whatever the content
ScanRaises(content) == FALSE

\* an invalid result that carries no reason
InvalidNoReason(reason) ==
    [isValidListView |-> FALSE, columns |-> <<>>, columnDetails |-> <<>>,
     pattern |-> Absent, reason |-> Absent]

\* a ClassificationResult; a field the code leaves out is Absent (columnDetails: <<>>)
Invalid(reason) ==
    [isValidListView |-> FALSE, columns |-> <<>>, columnDetails |-> <<>>,
     pattern |-> Absent, reason |-> reason]

ValidColumnsOfExpressions(details, pattern) ==
    [isValidListView |-> TRUE, columns |-> [i \in 1..Len(details) |-> details[i].expression],
     columnDetails |-> details, pattern |-> pattern, reason |-> Absent]

Valid(details, pattern) ==
    [isValidListView |-> TRUE, columns |-> [i \in 1..Len(details) |-> details[i].key],
     columnDetails |-> details, pattern |-> pattern, reason |-> Absent]

ReasonEmpty == "Empty query"
\* the reasons of the two catch blocks (the code appends error.message)
ReasonFailedProjection == "Failed to parse object projection"
ReasonFailedArray == "Failed to parse property array"
ReasonNotSuitable ==
    "Query pattern not suitable for list view. Use formats like: [].{title: title, status: status}"

\* patterns 2 and 3 with properties.some in place of properties.every
ClassifyFlatSome(trimmedQuery) ==
    IF MatchesSimpleProperty(trimmedQuery)
    THEN Valid(<<[key |-> trimmedQuery, expression |-> trimmedQuery]>>, "simple-property")
    ELSE LET arrayMatch == ArrayMatch(trimmedQuery)
             raw == SplitComma(arrayMatch.group, 1, <<>>)
             properties == [i \in 1..Len(raw) |-> Trim(raw[i])]
         IN  IF arrayMatch.matched
                /\ (\E i \in 1..Len(properties) : MatchesSimpleProperty(properties[i]))
             THEN Valid([i \in 1..Len(properties) |->
                            [key |-> properties[i], expression |-> properties[i]]],
                        "property-array")
             ELSE Invalid(ReasonNotSuitable)

\* patterns 2 and 3 where a rejected property array reports a parse failure
ClassifyFlatParseReason(trimmedQuery) ==
    IF MatchesSimpleProperty(trimmedQuery)
    THEN Valid(<<[key |-> trimmedQuery, expression |-> trimmedQuery]>>, "simple-property")
    ELSE LET arrayMatch == ArrayMatch(trimmedQuery)
             raw == SplitComma(arrayMatch.group, 1, <<>>)
             properties == [i \in 1..Len(raw) |-> Trim(raw[i])]
         IN  IF arrayMatch.matched
                /\ (\A i \in 1..Len(properties) : MatchesSimpleProperty(properties[i]))
                /\ Len(properties) > 0
             THEN Valid([i \in 1..Len(properties) |->
                            [key |-> properties[i], expression |-> properties[i]]],
                        "property-array")
             ELSE IF arrayMatch.matched THEN Invalid(ReasonFailedArray)
             ELSE Invalid(ReasonNotSuitable)

\* patterns 2 and 3 and the final return
ClassifyFlat(trimmedQuery) ==
    IF MatchesSimpleProperty(trimmedQuery)
    THEN Valid(<<[key |-> trimmedQuery, expression |-> trimmedQuery]>>, "simple-property")
    ELSE LET arrayMatch == ArrayMatch(trimmedQuery)
             raw == SplitComma(arrayMatch.group, 1, <<>>)
             properties == [i \in 1..Len(raw) |-> Trim(raw[i])]
         IN  IF arrayMatch.matched
                /\ (\A i \in 1..Len(properties) : MatchesSimpleProperty(properties[i]))
                /\ Len(properties) > 0
             THEN Valid([i \in 1..Len(properties) |->
                            [key |-> properties[i], expression |-> properties[i]]],
                        "property-array")
             ELSE Invalid(ReasonNotSuitable)

analyzeListViewQuery(text) ==
    IF Trim(text) = <<>> THEN Invalid(ReasonEmpty)
    ELSE LET trimmedQuery == Trim(text)
             objectMatch == ObjectProjectionMatch(trimmedQuery)
             columns == ParseObjectContent(objectMatch.group)
         IN  IF objectMatch.matched /\ ScanRaises(objectMatch.group)
             THEN Invalid(ReasonFailedProjection)
             ELSE IF objectMatch.matched /\ Len(columns) > 0
             THEN Valid(columns, "object-projection")
             ELSE ClassifyFlat(trimmedQuery)

(***************************************************************************)
(* Inputs of the classification                                            *)
(***************************************************************************)
MaxLen == 5
MaxPairs == 2

ClassifyAlphabet == {"[", "]", ",", ".", "a", "1", " "}

\* every text over the alphabet of at most MaxLen characters
RawTexts == UNION {[1..n -> ClassifyAlphabet] : n \in 0..MaxLen}

ProjectionForms == {<<"[", "]", ".", "{">>, <<"[", "]", "{">>}
PairKeys == {<<"a">>, <<"t", "2">>}
PairExprs ==
    {<<"b">>,
     <<"c", "[", "0", ":", "2", "]">>,
     <<"'", "x", ",", "y", ":", "'">>,
     <<"{", "x", ":", "y", "}">>,
     <<"b", ":", "c">>,
     <<"[", "b", ",", "c", "]">>}
Paddings == {<<>>, <<" ">>}
Pairs == [key : PairKeys, expression : PairExprs]
PairLists == UNION {[1..n -> Pairs] : n \in 1..MaxPairs}

RECURSIVE RenderPairs(_, _, _)
RenderPairs(pairs, i, pad) ==
    IF i > Len(pairs) THEN <<>>
    ELSE (IF i > 1 THEN <<",">> \o pad ELSE <<>>)
         \o pairs[i].key \o <<":">> \o pad \o pairs[i].expression
         \o RenderPairs(pairs, i + 1, pad)

\* the text of the object projection with these pairs
RenderProjection(form, pairs, pad) == form \o RenderPairs(pairs, 1, pad) \o <<"}">>

\* brace contents from which no pair can be taken: a part is missing or blank
ZeroPairContents ==
    {<<"a">>, <<":", "b">>, <<"a", ":">>, <<",">>, <<" ">>, <<":">>,
     <<"a", ":", ",", ":", "b">>, <<"a", ":", " ", ",", " ", ":", "b">>}

\* expressions with a quote, brace or bracket that has no partner
UnbalancedExprs ==
    {<<"'", "b">>, <<"\"", "b">>, <<"b", "]">>, <<"[", "0">>, <<"{", "b">>}

UnbalancedPairLists ==
    UNION {{<<[key |-> <<"a">>, expression |-> e]>>,
            <<[key |-> <<"a">>, expression |-> e], [key |-> <<"t", "2">>, expression |-> <<"b">>]>>,
            <<[key |-> <<"a">>, expression |-> <<"b">>], [key |-> <<"t", "2">>, expression |-> e]>>}
           : e \in UnbalancedExprs}

RawOrigin == [kind |-> "raw", pairs |-> <<>>]

InitClassify ==
    /\ cpc = "input"
    /\ analysis = Invalid(NotRun)
    /\ \/ /\ queryText \in RawTexts
          /\ origin = RawOrigin
       \/ \E form \in ProjectionForms, pairs \in PairLists, pad \in Paddings :
            /\ queryText = RenderProjection(form, pairs, pad)
            /\ origin = [kind |-> "projection", pairs |-> pairs]
       \/ \E form \in ProjectionForms, pairs \in UnbalancedPairLists, pad \in Paddings :
            /\ queryText = RenderProjection(form, pairs, pad)
            /\ origin = [kind |-> "unbalanced-projection", pairs |-> pairs]
       \/ \E form \in ProjectionForms, content \in ZeroPairContents :
            /\ queryText = form \o content \o <<"}">>
            /\ origin = [kind |-> "empty-projection", pairs |-> <<>>]

IdleClassify ==
    /\ cpc = "idle"
    /\ queryText = <<>>
    /\ origin = RawOrigin
    /\ analysis = Invalid(NotRun)

\* one call of analyzeListViewQuery
AnalyzeListViewQuery ==
    /\ cpc = "input"
    /\ analysis' = analyzeListViewQuery(queryText)
    /\ cpc' = "done"
    /\ UNCHANGED <<queryText, origin, projectVars, analyzeVars, registryVars>>

IdleProject ==
    /\ ppc = "idle"
    /\ projRows = <<>>
    /\ engine = <<>>
    /\ engineLoads = TRUE
    /\ transformedRows = <<>>

(***************************************************************************)
(* JSON values: the type, and for an object its keys in insertion order    *)
(***************************************************************************)
JsonNull == [type |-> "null", keys |-> <<>>]
JsonNumber == [type |-> "number", keys |-> <<>>]
JsonArray == [type |-> "array", keys |-> <<>>]
JsonObject(keys) == [type |-> "object", keys |-> keys]

\* row.json && typeof row.json === 'object' && !Array.isArray(row.json):
\* null is excluded by the truthiness test, a number by typeof
IsPlainObject(v) == v.type = "object"

(***************************************************************************)
(* Batch projection (display.mjs applyListViewQuery)                       *)
(***************************************************************************)
\* the fallback row of both catch blocks and of the non-object branch
FallbackRow(row) ==
    [uuid |-> row.uuid, time |-> row.time, listViewData |-> JsonNull, originalJson |-> row.json]

\* the loop body without the !Array.isArray(result) test
ProjectRowKeepsArrays(row, outcome) ==
    IF outcome.raises THEN FallbackRow(row)
    ELSE IF outcome.value.type \in {"object", "array"}
    THEN [uuid |-> row.uuid, time |-> row.time, listViewData |-> outcome.value,
          originalJson |-> row.json]
    ELSE FallbackRow(row)

\* the body of the for loop: jmespath.search on one row inside its own try
ProjectRow(row, outcome) ==
    IF outcome.raises THEN FallbackRow(row)
    ELSE IF IsPlainObject(outcome.value)
    THEN [uuid |-> row.uuid, time |-> row.time, listViewData |-> outcome.value,
          originalJson |-> row.json]
    ELSE FallbackRow(row)

RECURSIVE ProjectLoop(_, _, _, _)
ProjectLoop(rows, outcomes, i, acc) ==
    IF i > Len(rows) THEN acc
    ELSE ProjectLoop(rows, outcomes, i + 1, Append(acc, ProjectRow(rows[i], outcomes[i])))

\* the function without the inner try: the first raise reaches the outer catch
applyListViewQueryNoInnerTry(rows, outcomes, loads) ==
    IF loads /\ \A i \in 1..Len(rows) : ~outcomes[i].raises
    THEN ProjectLoop(rows, outcomes, 1, <<>>)
    ELSE [i \in 1..Len(rows) |-> FallbackRow(rows[i])]

\* loads: whether `await import('jmespath')` succeeds; outcomes[i]: what
\* jmespath.search does on rows[i]
applyListViewQuery(rows, outcomes, loads) ==
    IF loads
    THEN ProjectLoop(rows, outcomes, 1, <<>>)
    ELSE [i \in 1..Len(rows) |-> FallbackRow(rows[i])]

MaxBatch == 3

Docs == {JsonObject(<<"a">>), JsonNumber}
Times == {1, 2}
EngineOutcomes ==
    {[raises |-> TRUE, value |-> JsonNull]}
    \cup {[raises |-> FALSE, value |-> v] : v \in {JsonObject(<<"c">>), JsonArray, JsonNull}}

\* batches of at most MaxBatch rows; the i-th row's uuid is i
Batches ==
    UNION {{[i \in 1..n |-> [uuid |-> i, time |-> t[i], json |-> d[i]]] :
                t \in [1..n -> Times], d \in [1..n -> Docs]} : n \in 0..MaxBatch}

InitProject ==
    /\ ppc = "input"
    /\ projRows \in Batches
    /\ engine \in [1..Len(projRows) -> EngineOutcomes]
    /\ engineLoads \in BOOLEAN
    /\ transformedRows = <<>>

\* one call of applyListViewQuery
ApplyListViewQuery ==
    /\ ppc = "input"
    /\ transformedRows' = applyListViewQuery(projRows, engine, engineLoads)
    /\ ppc' = "done"
    /\ UNCHANGED <<projRows, engine, engineLoads, classifyVars, analyzeVars, registryVars>>

(***************************************************************************)
(* Consistency scoring (display.mjs analyzeQueryResults)                   *)
(***************************************************************************)
NotShowableNoReason(text, percent) ==
    [canShowColumns |-> FALSE, columns |-> <<>>,
     reason |-> [text |-> Absent, percent |-> -1]]

NotShowable(text, percent) ==
    [canShowColumns |-> FALSE, columns |-> <<>>,
     reason |-> [text |-> text, percent |-> percent]]

\* reason: null
NoReason == [text |-> Absent, percent |-> -1]

IsStructuredAllowEmpty(v) == IsPlainObject(v)

\* the predicate of rows.some and rows.find
IsStructured(v) == IsPlainObject(v) /\ Len(v.keys) > 0

RECURSIVE FindLastStructured(_, _)
FindLastStructured(rows, i) ==
    IF i < 1 THEN 0
    ELSE IF IsStructured(rows[i]) THEN i
    ELSE FindLastStructured(rows, i - 1)

\* rows.find(...) : the index of the first structured row, 0 when there is none
RECURSIVE FindStructured(_, _)
FindStructured(rows, i) ==
    IF i > Len(rows) THEN 0
    ELSE IF IsStructured(rows[i]) THEN i
    ELSE FindStructured(rows, i + 1)

SampleIndexLast(rows) == FindLastStructured(rows, Len(rows))

SampleIndex(rows) == FindStructured(rows, 1)

IsConsistentRowOrdered(v, columns) == IsPlainObject(v) /\ v.keys = columns

\* the predicate of rows.filter: same number of keys, every column included
IsConsistentRow(v, columns) ==
    /\ IsPlainObject(v)
    /\ Len(v.keys) = Len(columns)
    /\ \A c \in 1..Len(columns) : \E k \in 1..Len(v.keys) : v.keys[k] = columns[c]

RECURSIVE CountConsistent(_, _, _)
CountConsistent(rows, columns, i) ==
    IF i > Len(rows) THEN 0
    ELSE (IF IsConsistentRow(rows[i], columns) THEN 1 ELSE 0)
         + CountConsistent(rows, columns, i + 1)

BelowThresholdInclusive(count, total) == 5 * count <= 4 * total

\* consistentRows.length / rows.length < 0.8
BelowThreshold(count, total) == 5 * count < 4 * total

\* Math.round(consistencyRatio * 100)
RoundedPercent(count, total) == (200 * count + total) \div (2 * total)

analyzeQueryResults(rows) ==
    IF Len(rows) = 0 THEN NotShowable("No data to analyze", -1)
    ELSE IF \A i \in 1..Len(rows) : ~IsStructured(rows[i])
    THEN NotShowable("Query results are not structured objects", -1)
    ELSE IF SampleIndex(rows) = 0
    THEN NotShowable("No valid structured data found", -1)
    ELSE LET columns == rows[SampleIndex(rows)].keys
             count == CountConsistent(rows, columns, 1)
         IN  IF Len(columns) = 0
             THEN NotShowable("No columns found in structured data", -1)
             ELSE IF BelowThreshold(count, Len(rows))
             THEN NotShowable("Only N% of rows have consistent structure",
                              RoundedPercent(count, Len(rows)))
             ELSE [canShowColumns |-> TRUE, columns |-> columns, reason |-> NoReason]

\* displayRowsInteractively: how the choices are built for these rows, "none"
\* for an empty collection, "values" (the cells of each row joined by " | ")
\* when a list view query is given and the analysis allows columns, and
\* "snippets" (createRowChoicesWithNumbers) otherwise
displayRowsInteractively(rows, listViewQuery) ==
    IF Len(rows) = 0 THEN "none"
    ELSE IF listViewQuery /\ analyzeQueryResults(rows).canShowColumns THEN "values"
    ELSE "snippets"

MaxHead == 2
MaxRun == 8
MaxTail == 3

RowValues ==
    {JsonNull, JsonNumber, JsonArray, JsonObject(<<>>), JsonObject(<<"a", "b">>),
     JsonObject(<<"b", "a">>), JsonObject(<<"a">>), JsonObject(<<"a", "c">>)}
RunValues == {JsonObject(<<"a", "b">>), JsonObject(<<"b", "a">>)}
TailValues == {JsonNull, JsonObject(<<"a">>)}

Repeat(v, n) == [i \in 1..n |-> v]

\* a free head, then a run of equal rows, then a tail of equal rows
InitAnalyze ==
    /\ apc = "input"
    /\ consistency = NotShowable(NotRun, -1)
    /\ \E head \in UNION {[1..n -> RowValues] : n \in 0..MaxHead},
          rv \in RunValues, m \in 0..MaxRun, tv \in TailValues, r \in 0..MaxTail :
            anRows = head \o Repeat(rv, m) \o Repeat(tv, r)

\* one call of analyzeQueryResults
AnalyzeQueryResults ==
    /\ apc = "input"
    /\ consistency' = analyzeQueryResults(anRows)
    /\ apc' = "done"
    /\ UNCHANGED <<anRows, classifyVars, projectVars, registryVars>>

IdleAnalyze ==
    /\ apc = "idle"
    /\ anRows = <<>>
    /\ consistency = NotShowable(NotRun, -1)

(***************************************************************************)
(* The query registry: the replicated store behind sheet.listQueries,      *)
(* addQuery, updateQuery and deleteQuery.  The store is not part of this   *)
(* repository; its operations follow section 4.4 of the specification.     *)
(***************************************************************************)
MaxQueries == 2

Writers == {"w1", "w2"}
Schemas == {"s1", "s2"}
\* the schema whose Manage Queries menu the writers have open: listQueries
\* filters by schemaId and updateQuery addresses one queryId, so writers
\* working in different schemas never touch each other's definitions
MenuSchemas == {"s1"}
QueryIds == 1..MaxQueries
\* one expression that classifies as a list view and one that does not
Texts == {<<"a">>, <<"1">>}

NoEntry == [present |-> FALSE, schemaId |-> "", JMESPathQuery |-> <<>>, listView |-> FALSE]
NoQuery == [queryId |-> 0, schemaId |-> "", JMESPathQuery |-> <<>>, listView |-> FALSE]

QueryDefinition(st, id) ==
    [queryId |-> id, schemaId |-> st[id].schemaId,
     JMESPathQuery |-> st[id].JMESPathQuery, listView |-> st[id].listView]

\* the registry of a single writer's run holds up to MaxSolo definitions
MaxSolo == 3

\* the orders in which the store may iterate over its entries
Orders == {o \in [1..MaxQueries -> QueryIds] : \A i, j \in 1..MaxQueries : o[i] = o[j] => i = j}

OrdersOfSize ==
    [n \in {MaxQueries, MaxSolo} |->
        {o \in [1..n -> 1..n] : \A i, j \in 1..n : o[i] = o[j] => i = j}]

\* the iteration orders of a store with this many queryIds
ListingOrders(st) == OrdersOfSize[Len(st)]

\* the outcomes a call of the backing store can have in this run: TRUE when it
\* returns, FALSE when it rejects
Outcomes == IF setting.faults THEN BOOLEAN ELSE {TRUE}

\* at most one flagged definition in every schema
Exclusive(st) ==
    \A s \in Schemas :
        Cardinality({id \in DOMAIN st :
                        st[id].present /\ st[id].schemaId = s /\ st[id].listView}) <= 1

RECURSIVE ListFrom(_, _, _, _)
ListFrom(st, schemaId, order, i) ==
    IF i > Len(order) THEN <<>>
    ELSE (IF st[order[i]].present /\ st[order[i]].schemaId = schemaId
          THEN <<QueryDefinition(st, order[i])>> ELSE <<>>)
         \o ListFrom(st, schemaId, order, i + 1)

\* list(schemaId): the definitions of the schema, in the store's order
listQueries(st, schemaId, order) == ListFrom(st, schemaId, order, 1)

\* update fails on a queryId the store does not hold
CanUpdate(st, id) == id \in DOMAIN st /\ st[id].present

\* update(queryId, name, text, listView): a full overwrite
updateQuery(st, id, text, listView) ==
    [st EXCEPT ![id].JMESPathQuery = text, ![id].listView = listView]

\* add(schemaId, name, text, listView) under the queryId the registry assigns
addQuery(st, id, schemaId, text, listView) ==
    [st EXCEPT ![id] = [present |-> TRUE, schemaId |-> schemaId,
                        JMESPathQuery |-> text, listView |-> listView]]

\* remove(queryId)
deleteQuery(st, id) == [st EXCEPT ![id] = NoEntry]

(***************************************************************************)
(* sheet-operations.mjs: the two reads of the list-view flag               *)
(***************************************************************************)
RECURSIVE FindListView(_, _)
FindListView(savedQueries, i) ==
    IF i > Len(savedQueries) THEN NoQuery
    ELSE IF savedQueries[i].listView THEN savedQueries[i]
    ELSE FindListView(savedQueries, i + 1)

\* readOk: whether sheet.listQueries returned; the catch block returns null
checkExistingListView(savedQueries, readOk) ==
    IF readOk THEN FindListView(savedQueries, 1) ELSE NoQuery

IsListView(q) == q.listView

\* a variant that gives up (returns null) when several definitions are flagged
getListViewQueryNullOnConflict(savedQueries, readOk) ==
    LET listViewQueries == SelectSeq(savedQueries, IsListView)
    IN  [result |-> IF readOk /\ Len(listViewQueries) = 1 THEN listViewQueries[1] ELSE NoQuery,
         conflictWarning |-> readOk /\ Len(listViewQueries) > 1,
         named |-> IF readOk /\ Len(listViewQueries) > 1
                   THEN {listViewQueries[1].queryId} ELSE {},
         failureWarning |-> ~readOk,
         raised |-> FALSE]

\* the value returned, the two console.warn calls (named: the definitions the
\* conflict warning names), and whether the call raised
getListViewQuery(savedQueries, readOk) ==
    LET listViewQueries == SelectSeq(savedQueries, IsListView)
    IN  IF readOk
        THEN [result |-> IF Len(listViewQueries) > 0 THEN listViewQueries[1] ELSE NoQuery,
              conflictWarning |-> Len(listViewQueries) > 1,
              named |-> IF Len(listViewQueries) > 1
                        THEN {listViewQueries[1].queryId} ELSE {},
              failureWarning |-> FALSE,
              raised |-> FALSE]
        ELSE [result |-> NoQuery, conflictWarning |-> FALSE, named |-> {},
              failureWarning |-> TRUE, raised |-> FALSE]

(***************************************************************************)
(* row-menu.mjs: the decisions and writes of the list-view protocol        *)
(***************************************************************************)
\* if (analysis.isValidListView) in showCreateQuery and saveQuery
OffersListViewAlways(text) == TRUE

OffersListView(text) == analyzeListViewQuery(text).isValidListView

NeedsReplaceConfirmNever(holder, candidate) == FALSE

\* if (existingListView && existingListView.queryId !== query.queryId)
NeedsReplaceConfirm(holder, candidate) ==
    holder.queryId # 0 /\ holder.queryId # candidate.queryId

\* the clearing update written with listView = true
ClearHolderFlagKeepsFlag(st, holder) ==
    updateQuery(st, holder.queryId, holder.JMESPathQuery, TRUE)

\* sheet.updateQuery(existingListView.queryId, name, JMESPathQuery, false)
ClearHolderFlag(st, holder) ==
    updateQuery(st, holder.queryId, holder.JMESPathQuery, FALSE)

\* a catch block that undoes the clear by flagging the holder again
SetListViewCatchRollsBack(st, holder) ==
    IF holder.queryId \in DOMAIN st /\ st[holder.queryId].present
    THEN updateQuery(st, holder.queryId, holder.JMESPathQuery, TRUE)
    ELSE st

\* catch (error) in showSetListView: console.error, waitForContinue,
\* showQueryDetail; the registry is left as the failed step found it
SetListViewCatch(st, holder) == st

\* a flag write that also clears every other flag of the candidate's schema
SetCandidateFlagExclusive(st, candidate) ==
    [id \in DOMAIN st |->
        IF id = candidate.queryId
        THEN [st[id] EXCEPT !.JMESPathQuery = candidate.JMESPathQuery, !.listView = TRUE]
        ELSE IF st[id].present /\ st[id].schemaId = st[candidate.queryId].schemaId
        THEN [st[id] EXCEPT !.listView = FALSE]
        ELSE st[id]]

\* sheet.updateQuery(query.queryId, query.name, query.JMESPathQuery, true)
SetCandidateFlag(st, candidate) ==
    updateQuery(st, candidate.queryId, candidate.JMESPathQuery, TRUE)

NoGlv ==
    [schemaId |-> "", readOk |-> FALSE, order |-> <<>>, result |-> NoQuery,
     conflictWarning |-> FALSE, named |-> {}, failureWarning |-> FALSE, raised |-> FALSE]

\* a writer at the Manage Queries menu, and the history of a run not yet begun
AtMenu ==
    [pc |-> "menu", handler |-> "", schema |-> "", query |-> NoQuery,
     existing |-> NoQuery, isListView |-> FALSE]

NoHistory ==
    [writes |-> 0, declined |-> "", proceeded |-> FALSE, clearDone |-> FALSE,
     flagWrite |-> 0, interfered |-> FALSE, raceWith |-> 0]

\* w has looked up the holder and has its flag-setting write still ahead
FlagWritePending(w) ==
    \/ menu[w].pc \in {"set_clear", "set_write", "create_clear"}
    \/ menu[w].pc = "create_add" /\ menu[w].isListView

\* the histories after writer w changed the store: own is w's history, c is the
\* queryId whose flag the protocol's write set in schema s, or 0 for other writes
Wrote(w, own, c, s) ==
    [o \in Writers |->
        IF o = w THEN own
        ELSE [hist[o] EXCEPT
                !.interfered = @ \/ hist[o].clearDone,
                !.raceWith = IF /\ c # 0
                                /\ FlagWritePending(o)
                                /\ menu[o].schema = s
                                /\ menu[o].query.queryId # c
                                /\ menu[o].existing.queryId # c
                             THEN c ELSE 0]]

InitRegistry ==
    /\ store = [id \in QueryIds |-> NoEntry]
    /\ nextId = 1
    /\ menu = [w \in Writers |-> AtMenu]
    /\ hist = [w \in Writers |-> NoHistory]
    /\ glv = NoGlv
    /\ lookup = "idle"
    /\ setting = [faults |-> TRUE, exclusive |-> TRUE]

pureVars == <<classifyVars, projectVars, analyzeVars>>

\* showManageQueries -> showQueryDetail: the operator picks one listed definition
SelectQuery(w) ==
    /\ menu[w].pc = "menu"
    /\ \E s \in MenuSchemas, order \in ListingOrders(store) :
          LET savedQueries == listQueries(store, s, order)
          IN  \E i \in 1..Len(savedQueries) :
                menu' = [menu EXCEPT ![w] =
                           [AtMenu EXCEPT !.pc = "detail", !.handler = "showQueryDetail",
                                          !.schema = s, !.query = savedQueries[i]]]
    /\ hist' = [hist EXCEPT ![w] = NoHistory]
    /\ UNCHANGED <<store, nextId, glv, lookup, setting, pureVars>>

\* showQueryDetail, choice 'back'
BackToManage(w) ==
    /\ menu[w].pc = "detail"
    /\ menu' = [menu EXCEPT ![w] = AtMenu]
    /\ hist' = [hist EXCEPT ![w] = NoHistory]
    /\ UNCHANGED <<store, nextId, glv, lookup, setting, pureVars>>

\* waitForContinue after a handler's last write, then showManageQueries
Continue(w) ==
    /\ menu[w].pc = "done"
    /\ menu' = [menu EXCEPT ![w] = AtMenu]
    /\ hist' = [hist EXCEPT ![w] = NoHistory]
    /\ UNCHANGED <<store, nextId, glv, lookup, setting, pureVars>>

\* showSetListView up to its try block: classify, and ask when invalid
SetListViewAnalyze(w) ==
    /\ menu[w].pc = "detail"
    /\ ~menu[w].query.listView
    /\ IF analyzeListViewQuery(menu[w].query.JMESPathQuery).isValidListView
       THEN /\ menu' = [menu EXCEPT ![w].pc = "set_check", ![w].handler = "showSetListView",
                                    ![w].existing = NoQuery]
            /\ hist' = [hist EXCEPT ![w] = NoHistory]
       ELSE \E proceed \in BOOLEAN :
            /\ menu' = [menu EXCEPT ![w].pc = IF proceed THEN "set_check" ELSE "detail",
                                    ![w].handler = "showSetListView",
                                    ![w].existing = NoQuery]
            /\ hist' = [hist EXCEPT ![w] =
                          [NoHistory EXCEPT !.declined = IF proceed THEN "" ELSE "anyway",
                                            !.proceeded = proceed]]
    /\ UNCHANGED <<store, nextId, glv, lookup, setting, pureVars>>

\* showSetListView: checkExistingListView, and the replace confirmation
SetListViewCheck(w) ==
    /\ menu[w].pc = "set_check"
    /\ \E readOk \in Outcomes, order \in ListingOrders(store) :
          LET holder == checkExistingListView(
                            listQueries(store, menu[w].schema, order), readOk)
          IN  IF NeedsReplaceConfirm(holder, menu[w].query)
              THEN \E replaceExisting \in BOOLEAN :
                     /\ menu' = [menu EXCEPT
                                   ![w].pc = IF replaceExisting THEN "set_clear" ELSE "detail",
                                   ![w].existing = holder]
                     /\ hist' = [hist EXCEPT ![w].declined =
                                   IF replaceExisting THEN "" ELSE "replace"]
              ELSE /\ menu' = [menu EXCEPT ![w].pc = "set_write"]
                   /\ UNCHANGED hist
    /\ UNCHANGED <<store, nextId, glv, lookup, setting, pureVars>>

\* showSetListView: the update clearing the holder's flag; a failure is caught
\* by the handler's catch block, which returns to the detail menu
SetListViewClear(w) ==
    /\ menu[w].pc = "set_clear"
    /\ \E writeOk \in Outcomes :
          IF writeOk /\ CanUpdate(store, menu[w].existing.queryId)
          THEN /\ store' = ClearHolderFlag(store, menu[w].existing)
               /\ menu' = [menu EXCEPT ![w].pc = "set_write"]
               /\ hist' = Wrote(w, [hist[w] EXCEPT !.writes = @ + 1, !.clearDone = TRUE],
                                0, menu[w].schema)
          ELSE /\ menu' = [menu EXCEPT ![w].pc = "detail"]
               /\ hist' = [hist EXCEPT ![w].writes = @ + 1]
               /\ store' = SetListViewCatch(store, menu[w].existing)
    /\ UNCHANGED <<nextId, glv, lookup, setting, pureVars>>

\* showSetListView: the update setting the candidate's flag
SetListViewWrite(w) ==
    /\ menu[w].pc = "set_write"
    /\ \E writeOk \in Outcomes :
          IF writeOk /\ CanUpdate(store, menu[w].query.queryId)
          THEN /\ store' = SetCandidateFlag(store, menu[w].query)
               /\ menu' = [menu EXCEPT ![w].pc = "done"]
               /\ hist' = Wrote(w, [hist[w] EXCEPT !.writes = @ + 1,
                                                   !.flagWrite = menu[w].query.queryId],
                                menu[w].query.queryId, menu[w].schema)
          ELSE /\ menu' = [menu EXCEPT ![w].pc = "detail"]
               /\ hist' = [hist EXCEPT ![w].writes = @ + 1]
               /\ store' = SetListViewCatch(store, menu[w].existing)
    /\ UNCHANGED <<nextId, glv, lookup, setting, pureVars>>

\* showRemoveListView, confirmed: the update written with listView = false
RemoveListView(w) ==
    /\ menu[w].pc = "detail"
    /\ menu[w].query.listView
    /\ \E writeOk \in Outcomes :
          IF writeOk /\ CanUpdate(store, menu[w].query.queryId)
          THEN /\ store' = updateQuery(store, menu[w].query.queryId,
                                       menu[w].query.JMESPathQuery, FALSE)
               /\ menu' = [menu EXCEPT ![w] = [AtMenu EXCEPT !.pc = "done"]]
               /\ hist' = Wrote(w, NoHistory, 0, menu[w].schema)
          ELSE /\ menu' = [menu EXCEPT ![w].handler = "showQueryDetail",
                                       ![w].existing = NoQuery]
               /\ hist' = [hist EXCEPT ![w] = NoHistory]
               /\ UNCHANGED store
    /\ UNCHANGED <<nextId, glv, lookup, setting, pureVars>>

\* showEditQuery: the update carries the flag of the definition as it was listed
EditQuery(w) ==
    /\ menu[w].pc = "detail"
    /\ \E newQueryText \in Texts, writeOk \in Outcomes :
          IF writeOk /\ CanUpdate(store, menu[w].query.queryId)
          THEN /\ store' = updateQuery(store, menu[w].query.queryId, newQueryText,
                                       menu[w].query.listView)
               /\ menu' = [menu EXCEPT ![w] = [AtMenu EXCEPT !.pc = "done"]]
               /\ hist' = Wrote(w, NoHistory, 0, menu[w].schema)
          ELSE /\ menu' = [menu EXCEPT ![w].handler = "showQueryDetail",
                                       ![w].existing = NoQuery]
               /\ hist' = [hist EXCEPT ![w] = NoHistory]
               /\ UNCHANGED store
    /\ UNCHANGED <<nextId, glv, lookup, setting, pureVars>>

\* showDeleteQuery, confirmed
DeleteQuery(w) ==
    /\ menu[w].pc = "detail"
    /\ \E writeOk \in Outcomes :
          IF writeOk /\ CanUpdate(store, menu[w].query.queryId)
          THEN /\ store' = deleteQuery(store, menu[w].query.queryId)
               /\ menu' = [menu EXCEPT ![w] = [AtMenu EXCEPT !.pc = "done"]]
               /\ hist' = Wrote(w, NoHistory, 0, menu[w].schema)
          ELSE /\ menu' = [menu EXCEPT ![w].handler = "showQueryDetail",
                                       ![w].existing = NoQuery]
               /\ hist' = [hist EXCEPT ![w] = NoHistory]
               /\ UNCHANGED store
    /\ UNCHANGED <<nextId, glv, lookup, setting, pureVars>>

\* the writers that will ask the registry for a new queryId
Creating == {w \in Writers : menu[w].pc \in {"create_check", "create_clear", "create_add"}}

\* showCreateQuery up to the classification of the entered text; saveQuery
\* (sheet-operations.mjs), once the operator chose to save, runs the same steps
CreateAnalyze(w) ==
    /\ menu[w].pc = "menu"
    /\ nextId + Cardinality(Creating) <= Len(store)
    /\ \E s \in MenuSchemas, text \in Texts :
          menu' = [menu EXCEPT ![w] =
                     [AtMenu EXCEPT
                        !.pc = IF OffersListView(text) THEN "create_check" ELSE "create_add",
                        !.handler = "showCreateQuery",
                        !.schema = s,
                        !.query = [queryId |-> 0, schemaId |-> s, JMESPathQuery |-> text,
                                   listView |-> FALSE]]]
    /\ hist' = [hist EXCEPT ![w] = NoHistory]
    /\ UNCHANGED <<store, nextId, glv, lookup, setting, pureVars>>

\* showCreateQuery / saveQuery: checkExistingListView and the two confirmations
CreateCheck(w) ==
    /\ menu[w].pc = "create_check"
    /\ \E readOk \in Outcomes, order \in ListingOrders(store) :
          LET holder == checkExistingListView(
                            listQueries(store, menu[w].schema, order), readOk)
          IN  IF holder.queryId # 0
              THEN \E replaceExisting \in BOOLEAN :
                     /\ menu' = [menu EXCEPT
                                   ![w].pc = IF replaceExisting THEN "create_clear"
                                             ELSE "create_add",
                                   ![w].existing = holder]
                     /\ hist' = [hist EXCEPT ![w].declined =
                                   IF replaceExisting THEN "" ELSE "replace"]
              ELSE /\ \E useAsListView \in BOOLEAN :
                        menu' = [menu EXCEPT ![w].pc = "create_add",
                                             ![w].isListView = useAsListView]
                   /\ UNCHANGED hist
    /\ UNCHANGED <<store, nextId, glv, lookup, setting, pureVars>>

\* a variant that sets isListView outside the inner try
CreateClearFlagsAnyway(w) ==
    /\ menu[w].pc = "create_clear"
    /\ \E writeOk \in Outcomes :
          IF writeOk /\ CanUpdate(store, menu[w].existing.queryId)
          THEN /\ store' = ClearHolderFlag(store, menu[w].existing)
               /\ menu' = [menu EXCEPT ![w].pc = "create_add", ![w].isListView = TRUE]
               /\ hist' = Wrote(w, [hist[w] EXCEPT !.writes = @ + 1, !.clearDone = TRUE],
                                0, menu[w].schema)
          ELSE /\ menu' = [menu EXCEPT ![w].pc = "create_add", ![w].isListView = TRUE]
               /\ hist' = [hist EXCEPT ![w].writes = @ + 1]
               /\ UNCHANGED store
    /\ UNCHANGED <<nextId, glv, lookup, setting, pureVars>>

\* the inner try: clear the holder's flag; isListView = true only if that succeeded
CreateClear(w) ==
    /\ menu[w].pc = "create_clear"
    /\ \E writeOk \in Outcomes :
          IF writeOk /\ CanUpdate(store, menu[w].existing.queryId)
          THEN /\ store' = ClearHolderFlag(store, menu[w].existing)
               /\ menu' = [menu EXCEPT ![w].pc = "create_add", ![w].isListView = TRUE]
               /\ hist' = Wrote(w, [hist[w] EXCEPT !.writes = @ + 1, !.clearDone = TRUE],
                                0, menu[w].schema)
          ELSE /\ menu' = [menu EXCEPT ![w].pc = "create_add"]
               /\ hist' = [hist EXCEPT ![w].writes = @ + 1]
               /\ UNCHANGED store
    /\ UNCHANGED <<nextId, glv, lookup, setting, pureVars>>

\* sheet.addQuery(schemaId, name, text, isListView); both handlers go on to
\* the menu whether or not the add succeeded
CreateAdd(w) ==
    /\ menu[w].pc = "create_add"
    /\ \E writeOk \in Outcomes :
          IF writeOk
          THEN /\ store' = addQuery(store, nextId, menu[w].schema,
                                    menu[w].query.JMESPathQuery, menu[w].isListView)
               /\ nextId' = nextId + 1
               /\ menu' = [menu EXCEPT ![w].pc = "done", ![w].query.queryId = nextId,
                                       ![w].query.listView = menu[w].isListView]
               /\ hist' = Wrote(w, [hist[w] EXCEPT
                                      !.writes = @ + 1,
                                      !.flagWrite = IF menu[w].isListView THEN nextId ELSE 0],
                                IF menu[w].isListView THEN nextId ELSE 0, menu[w].schema)
          ELSE /\ menu' = [menu EXCEPT ![w].pc = "done"]
               /\ hist' = [hist EXCEPT ![w].writes = @ + 1]
               /\ UNCHANGED <<store, nextId>>
    /\ UNCHANGED <<glv, lookup, setting, pureVars>>

Init == InitRegistry /\ IdleClassify /\ IdleProject /\ IdleAnalyze

Next ==
    \E w \in Writers :
        \/ SelectQuery(w)
        \/ BackToManage(w)
        \/ Continue(w)
        \/ SetListViewAnalyze(w)
        \/ SetListViewCheck(w)
        \/ SetListViewClear(w)
        \/ SetListViewWrite(w)
        \/ RemoveListView(w)
        \/ EditQuery(w)
        \/ DeleteQuery(w)
        \/ CreateAnalyze(w)
        \/ CreateCheck(w)
        \/ CreateClear(w)
        \/ CreateAdd(w)

Spec == Init /\ [][Next]_vars

(***************************************************************************)
(* One writer on its own: the same menu handlers, run by a single writer   *)
(* from every content the registry of the schema can have, with store      *)
(* calls that can fail or that always return, and with the row list        *)
(* (showRowList) reading the list view after a handler has finished        *)
(***************************************************************************)
SoloWriters == {"w1"}

SoloDefinitions ==
    [present : {TRUE}, schemaId : MenuSchemas, JMESPathQuery : Texts, listView : BOOLEAN]

InitSolo ==
    /\ nextId \in 1..(MaxSolo + 1)
    /\ store \in [1..MaxSolo -> SoloDefinitions \cup {NoEntry}]
    /\ \A id \in 1..MaxSolo : id >= nextId => store[id] = NoEntry
    /\ menu = [w \in Writers |-> AtMenu]
    /\ hist = [w \in Writers |-> NoHistory]
    /\ glv = NoGlv
    /\ lookup = "idle"
    /\ setting \in [faults : BOOLEAN, exclusive : {Exclusive(store)}]

\* waitForContinue, back to the schema menu, then showRowList:
\* getListViewQuery(sheet, schema) before the rows are listed
ShowRowList(w) ==
    /\ menu[w].pc = "done"
    /\ \E s \in MenuSchemas, readOk \in Outcomes, order \in ListingOrders(store) :
          LET r == getListViewQuery(listQueries(store, s, order), readOk)
          IN  glv' = [schemaId |-> s, readOk |-> readOk, order |-> order,
                      result |-> r.result, conflictWarning |-> r.conflictWarning,
                      named |-> r.named, failureWarning |-> r.failureWarning,
                      raised |-> r.raised]
    /\ menu' = [menu EXCEPT ![w].pc = "rows"]
    /\ lookup' = "done"
    /\ UNCHANGED <<store, nextId, hist, setting, pureVars>>

\* showRowList, choice 'back', and on to Manage Queries
BackFromRowList(w) ==
    /\ menu[w].pc = "rows"
    /\ menu' = [menu EXCEPT ![w] = AtMenu]
    /\ hist' = [hist EXCEPT ![w] = NoHistory]
    /\ glv' = NoGlv
    /\ lookup' = "idle"
    /\ UNCHANGED <<store, nextId, setting, pureVars>>

SoloStart == InitSolo /\ IdleClassify /\ IdleProject /\ IdleAnalyze

NextSolo ==
    \E w \in SoloWriters :
        \/ SelectQuery(w)
        \/ BackToManage(w)
        \/ Continue(w)
        \/ SetListViewAnalyze(w)
        \/ SetListViewCheck(w)
        \/ SetListViewClear(w)
        \/ SetListViewWrite(w)
        \/ RemoveListView(w)
        \/ EditQuery(w)
        \/ DeleteQuery(w)
        \/ CreateAnalyze(w)
        \/ CreateCheck(w)
        \/ CreateClear(w)
        \/ CreateAdd(w)
        \/ ShowRowList(w)
        \/ BackFromRowList(w)

SpecSolo == SoloStart /\ [][NextSolo]_vars

(***************************************************************************)
(* The list-view lookup on its own: it reads the registry once, so it is   *)
(* applied to every content the registry can have (definitions of either   *)
(* schema, flagged or not, deleted or not) after all queryIds are assigned *)
(***************************************************************************)
StoredDefinitions ==
    [present : {TRUE}, schemaId : Schemas, JMESPathQuery : Texts, listView : BOOLEAN]

InitLookup ==
    /\ store \in [QueryIds -> StoredDefinitions \cup {NoEntry}]
    /\ nextId = MaxQueries + 1
    /\ menu = [w \in Writers |-> AtMenu]
    /\ hist = [w \in Writers |-> NoHistory]
    /\ glv = NoGlv
    /\ lookup = "input"
    /\ setting = [faults |-> TRUE, exclusive |-> Exclusive(store)]

\* showRowList / showFilteredRows: getListViewQuery(sheet, schema)
GetListViewQuery ==
    /\ lookup = "input"
    /\ \E s \in Schemas, readOk \in Outcomes, order \in ListingOrders(store) :
          LET r == getListViewQuery(listQueries(store, s, order), readOk)
          IN  glv' = [schemaId |-> s, readOk |-> readOk, order |-> order,
                      result |-> r.result, conflictWarning |-> r.conflictWarning,
                      named |-> r.named, failureWarning |-> r.failureWarning,
                      raised |-> r.raised]
    /\ lookup' = "done"
    /\ UNCHANGED <<store, nextId, menu, hist, setting, pureVars>>

LookupStart == InitLookup /\ IdleClassify /\ IdleProject /\ IdleAnalyze
SpecLookup == LookupStart /\ [][GetListViewQuery]_vars

\* the classification alone: every other component stays idle
ClassifyStart == InitClassify /\ IdleProject /\ IdleAnalyze /\ InitRegistry
SpecClassify == ClassifyStart /\ [][AnalyzeListViewQuery]_vars

\* the batch projection alone
ProjectStart == IdleClassify /\ InitProject /\ IdleAnalyze /\ InitRegistry
SpecProject == ProjectStart /\ [][ApplyListViewQuery]_vars

\* the consistency scoring alone
AnalyzeStart == IdleClassify /\ IdleProject /\ InitAnalyze /\ InitRegistry
SpecAnalyze == AnalyzeStart /\ [][AnalyzeQueryResults]_vars

(***************************************************************************)
(* The grammar of the specification, stated without the scans above        *)
(***************************************************************************)
SetMin(S) == CHOOSE x \in S : \A y \in S : x <= y
SetMax(S) == CHOOSE x \in S : \A y \in S : x >= y

\* s without its leading and trailing white space
Trimmed(s) ==
    LET solid == {i \in 1..Len(s) : ~IsSpace(s[i])}
    IN  IF solid = {} THEN <<>> ELSE SubSeq(s, SetMin(solid), SetMax(solid))

\* one or more identifier segments joined by single dots
IsSimplePath(s) ==
    /\ Len(s) > 0
    /\ IsIdentStart(s[1])
    /\ \A i \in 1..Len(s) :
          /\ IsIdentPart(s[i]) \/ s[i] = "."
          /\ s[i] = "." => (i < Len(s) /\ IsIdentStart(s[i + 1]))

\* [ ... ] : an opening bracket, a closing bracket, anything between
IsBracketList(q) == Len(q) >= 2 /\ q[1] = "[" /\ q[Len(q)] = "]"

\* the comma-separated entries of s, trimmed, in source order
TrimmedEntries(s) ==
    LET commas == {i \in 1..Len(s) : s[i] = ","}
        starts == {1} \cup {c + 1 : c \in commas}
        stop(lo) == IF \E c \in commas : c >= lo
                    THEN SetMin({c \in commas : c >= lo}) - 1
                    ELSE Len(s)
        start(k) == CHOOSE lo \in starts : Cardinality({c \in commas : c < lo}) = k - 1
    IN  [k \in 1..(Cardinality(commas) + 1) |-> Trimmed(SubSeq(s, start(k), stop(start(k))))]

(***************************************************************************)
(* Claims about the classification                                         *)
(***************************************************************************)

(***************************************************************************)
(* Properties of the registry and the list-view protocol                   *)
(***************************************************************************)
FlaggedIn(s) ==
    {id \in DOMAIN store : store[id].present /\ store[id].schemaId = s /\ store[id].listView}

ClassifiesValid(text) == analyzeListViewQuery(text).isValidListView

\* C1: a getListViewQuery call whose registry read returns gives null exactly
\* when no definition of the schema is flagged; otherwise it gives one stored
\* definition of that schema with listView = true; when several are flagged it
\* still gives one of them and warns of the conflict; and no call raises.
C1_ListViewLookup ==
    lookup = "done" =>
        /\ ~glv.raised
        /\ glv.readOk =>
            /\ (glv.result = NoQuery) <=> (FlaggedIn(glv.schemaId) = {})
            /\ FlaggedIn(glv.schemaId) # {} =>
                /\ glv.result.queryId \in FlaggedIn(glv.schemaId)
                /\ glv.result = QueryDefinition(store, glv.result.queryId)
                /\ glv.result.listView
                /\ glv.result.schemaId = glv.schemaId
            /\ Cardinality(FlaggedIn(glv.schemaId)) > 1 =>
                /\ glv.conflictWarning
                /\ glv.result # NoQuery

C1_Witness ==
    /\ lookup = "done"
    /\ glv.readOk
    /\ Cardinality(FlaggedIn(glv.schemaId)) > 1
    /\ glv.conflictWarning
    /\ glv.result.queryId \in FlaggedIn(glv.schemaId)

\* C2: when a writer completes its flag-setting write after another writer
\* flagged a different candidate of the same schema between the first
\* writer's holder lookup and that write, both candidates are stored with
\* listView = true: two flagged definitions in one schema.
C2_ConcurrentWritersBothFlagged ==
    \A w \in Writers :
        hist[w].flagWrite # 0 /\ hist[w].raceWith # 0 =>
            /\ hist[w].flagWrite # hist[w].raceWith
            /\ {hist[w].flagWrite, hist[w].raceWith} \subseteq FlaggedIn(menu[w].schema)

C2_Witness ==
    \E w \in Writers, o \in Writers :
        /\ o # w
        /\ menu[w].handler = "showSetListView" /\ menu[o].handler = "showSetListView"
        /\ menu[w].existing = NoQuery /\ menu[o].existing = NoQuery
        /\ hist[w].flagWrite # 0 /\ hist[o].flagWrite # 0
        /\ hist[w].raceWith = hist[o].flagWrite
        /\ Cardinality(FlaggedIn(menu[w].schema)) = 2

\* C3 as stated: a declined replacement issues no registry write on any path;
\* a confirmed one clears the holder before flagging the candidate, and the
\* holder and the candidate are never flagged together once the candidate is.
C3_DeclineIssuesNoWrite ==
    \A w \in Writers :
        /\ hist[w].declined = "replace" => hist[w].writes = 0
        /\ menu[w].existing # NoQuery /\ hist[w].flagWrite # 0 =>
            /\ hist[w].clearDone
            /\ ~(/\ store[menu[w].existing.queryId].listView
                 /\ store[hist[w].flagWrite].listView)

\* C3: when the lookup reports a holder and the operator declines the
\* replacement, no flag is written: set-as-list-view issues no write at all, and
\* create/save issue only the add, with listView = false.  When the operator
\* confirms, the candidate's flag is written only after the update clearing
\* the holder completed, and from that update on the holder stays unflagged
\* for as long as no other writer writes.
C3_ReplaceProtocol ==
    \A w \in Writers :
        /\ hist[w].declined = "replace" =>
            /\ hist[w].flagWrite = 0
            /\ ~hist[w].clearDone
            /\ ~menu[w].isListView
            /\ hist[w].writes = IF menu[w].handler = "showCreateQuery" /\ menu[w].pc = "done"
                                THEN 1 ELSE 0
        /\ menu[w].existing # NoQuery /\ hist[w].flagWrite # 0 => hist[w].clearDone
        /\ hist[w].clearDone /\ ~hist[w].interfered =>
            /\ store[menu[w].existing.queryId].present
            /\ ~store[menu[w].existing.queryId].listView

C3_Witness ==
    \E w \in Writers, o \in Writers :
        /\ o # w
        /\ menu[w].handler = "showSetListView"
        /\ menu[w].existing # NoQuery
        /\ hist[w].clearDone /\ hist[w].flagWrite # 0 /\ ~hist[w].interfered
        /\ hist[o].declined = "replace"
        /\ menu[o].handler = "showCreateQuery" /\ menu[o].pc = "done"

\* C4: the protocol writes listView = true for a candidate whose expression
\* classifies as invalid only in set-as-list-view and only after the operator
\* confirmed; a declined confirmation there issues no write; and create/save
\* store a definition with an invalid expression with listView = false.
C4_InvalidNeedsConfirmation ==
    \A w \in Writers :
        /\ hist[w].declined = "anyway" => hist[w].writes = 0 /\ hist[w].flagWrite = 0
        /\ hist[w].flagWrite # 0 /\ ~ClassifiesValid(menu[w].query.JMESPathQuery) =>
            /\ hist[w].proceeded
            /\ menu[w].handler = "showSetListView"
        /\ menu[w].handler = "showCreateQuery"
              /\ ~ClassifiesValid(menu[w].query.JMESPathQuery) =>
            /\ ~menu[w].isListView
            /\ ~menu[w].query.listView
            /\ hist[w].flagWrite = 0

C4_Witness ==
    \E w \in Writers, o \in Writers :
        /\ hist[w].declined = "anyway"
        /\ menu[w].handler = "showSetListView"
        /\ menu[o].handler = "showCreateQuery" /\ menu[o].pc = "done"
        /\ menu[o].query.queryId # 0
        /\ ~ClassifiesValid(menu[o].query.JMESPathQuery)
        /\ store[menu[o].query.queryId].present
        /\ ~store[menu[o].query.queryId].listView


\* C5: for a well-formed object projection with k pairs (either outer form,
\* expressions with nested braces, brackets or quoted text allowed) the result
\* is valid, its pattern is object-projection, and columns are the k pair keys
\* in source order.
C5_ObjectProjectionColumns ==
    (cpc = "done" /\ origin.kind = "projection") =>
        /\ analysis.isValidListView
        /\ analysis.pattern = "object-projection"
        /\ Len(analysis.columns) = Len(origin.pairs)
        /\ \A i \in 1..Len(origin.pairs) : analysis.columns[i] = origin.pairs[i].key

\* C6: for input [p1, p2, ...] the result is valid with pattern property-array
\* exactly when every trimmed entry is a simple property path; then columns are
\* the trimmed entries in order; otherwise the input is invalid with no columns.
C6_PropertyArrayAllOrNothing ==
    (cpc = "done" /\ IsBracketList(Trimmed(queryText))) =>
        LET q == Trimmed(queryText)
            entries == TrimmedEntries(SubSeq(q, 2, Len(q) - 1))
            allPaths == \A i \in 1..Len(entries) : IsSimplePath(entries[i])
        IN  /\ (analysis.isValidListView /\ analysis.pattern = "property-array") <=> allPaths
            /\ allPaths => analysis.columns = entries
            /\ ~allPaths => (~analysis.isValidListView /\ analysis.columns = <<>>)

\* a two-entry array has been classified, and a list with a bad entry rejected
C6_Witness ==
    /\ cpc = "done"
    /\ queryText = <<"[", "a", ",", "a", "]">>
    /\ analysis.columns = <<(<<"a">>), (<<"a">>)>>

\* C7: a trimmed text that is a dotted identifier path is valid with pattern
\* simple-property, one column equal to the path, and the single detail
\* {key: path, expression: path}.
C7_SimplePropertySingleColumn ==
    (cpc = "done" /\ IsSimplePath(Trimmed(queryText))) =>
        LET path == Trimmed(queryText)
        IN  /\ analysis.isValidListView
            /\ analysis.pattern = "simple-property"
            /\ analysis.columns = <<path>>
            /\ analysis.columnDetails = <<[key |-> path, expression |-> path]>>

\* a dotted path with surrounding white space has been classified
C7_Witness ==
    /\ cpc = "done"
    /\ queryText = <<" ", "a", ".", "a", " ">>
    /\ analysis.pattern = "simple-property"

(***************************************************************************)
(* Claims about the consistency scoring                                    *)
(***************************************************************************)
KeySet(v) == {v.keys[k] : k \in 1..Len(v.keys)}

\* a non-array object with at least one key
StructuredRows(rows) == {i \in 1..Len(rows) : rows[i].type = "object" /\ rows[i].keys # <<>>}

\* the rows that are non-array objects with the key set of the first structured row
SameKeySetRows(rows) ==
    LET sample == rows[SetMin(StructuredRows(rows))]
    IN  {i \in 1..Len(rows) :
            /\ rows[i].type = "object"
            /\ KeySet(rows[i]) = KeySet(sample)
            /\ Len(rows[i].keys) = Cardinality(KeySet(sample))}

\* C8: for a non-empty collection with a structured row, canShowColumns is true
\* exactly when 5 * consistentCount >= 4 * rows.length, the count taken by key
\* set and the denominator over every row (8 of 10 showable, 7 of 10 not).
C8_ThresholdEightyPercent ==
    (apc = "done" /\ Len(anRows) > 0 /\ StructuredRows(anRows) # {}) =>
        (consistency.canShowColumns
            <=> 5 * Cardinality(SameKeySetRows(anRows)) >= 4 * Len(anRows))

\* ten rows, exactly eight of them with the sample's key set, judged showable
C8_Witness ==
    /\ apc = "done"
    /\ Len(anRows) = 10
    /\ StructuredRows(anRows) # {}
    /\ Cardinality(SameKeySetRows(anRows)) = 8
    /\ consistency.canShowColumns

\* C9: when the result is showable, the columns are the keys of the first
\* structured row in input order, in that row's key order, whatever the key
\* sets or key orders of the later rows.
C9_ColumnsOfFirstStructuredRow ==
    (apc = "done" /\ consistency.canShowColumns) =>
        /\ StructuredRows(anRows) # {}
        /\ consistency.columns = anRows[SetMin(StructuredRows(anRows))].keys

\* showable rows whose first structured row comes after an unstructured one
\* and is followed by a row with another key order
C9_Witness ==
    /\ apc = "done"
    /\ consistency.canShowColumns
    /\ StructuredRows(anRows) # {}
    /\ SetMin(StructuredRows(anRows)) > 1
    /\ \E i \in StructuredRows(anRows) :
          anRows[i].keys # anRows[SetMin(StructuredRows(anRows))].keys

(***************************************************************************)
(* Claims about the batch projection                                       *)
(***************************************************************************)
Raise == [raises |-> TRUE, value |-> JsonNull]

\* C10: a batch of N rows returns N rows, the i-th with the id and time of the
\* i-th input row, and the i-th result is the same whether or not the engine
\* raises on another row; so too when every row fails or the engine is missing.
C10_BatchIsolation ==
    (ppc = "done") =>
        /\ Len(transformedRows) = Len(projRows)
        /\ \A i \in 1..Len(projRows) :
              /\ transformedRows[i].uuid = projRows[i].uuid
              /\ transformedRows[i].time = projRows[i].time
              /\ \A j \in 1..Len(projRows) \ {i} :
                    applyListViewQuery(projRows, [engine EXCEPT ![j] = Raise],
                                       engineLoads)[i] = transformedRows[i]

\* the engine raised on one row and a later row still carries its projection
C10_Witness ==
    /\ ppc = "done"
    /\ engineLoads
    /\ \E i, j \in 1..Len(projRows) :
          /\ i < j
          /\ engine[i].raises
          /\ ~engine[j].raises
          /\ transformedRows[j].listViewData = engine[j].value
          /\ engine[j].value.type = "object"


\* whether the evaluation of row i succeeded: the engine loaded and did not raise
Evaluated(i) == engineLoads /\ ~engine[i].raises

\* C11 as stated: every projected row keeps the input document; its projection
\* is the value the engine returned when the evaluation succeeded, and it is
\* null when and only when the evaluation of that document failed.
C11_ProjectedIsEngineValue ==
    (ppc = "done") =>
        \A i \in 1..Len(projRows) :
            /\ transformedRows[i].originalJson = projRows[i].json
            /\ Evaluated(i) => transformedRows[i].listViewData = engine[i].value
            /\ (transformedRows[i].listViewData = JsonNull) <=> ~Evaluated(i)

\* C11: every projected row keeps the input document; its projection is the
\* value the engine returned when the evaluation succeeded with an object that
\* is not an array, and null in every other case (the evaluation failed, or it
\* returned an array, null or another non-object value).
C11_ProjectedIsObjectOrNull ==
    (ppc = "done") =>
        \A i \in 1..Len(projRows) :
            /\ transformedRows[i].originalJson = projRows[i].json
            /\ transformedRows[i].listViewData =
                  IF Evaluated(i) /\ engine[i].value.type = "object"
                  THEN engine[i].value ELSE JsonNull

\* one row projected to an object, one row whose array result was dropped and
\* one row whose evaluation raised
C11_Witness ==
    /\ ppc = "done"
    /\ engineLoads
    /\ \E i, j, k \in 1..Len(projRows) :
          /\ ~engine[i].raises /\ engine[i].value.type = "object"
          /\ transformedRows[i].listViewData = engine[i].value
          /\ ~engine[j].raises /\ engine[j].value.type = "array"
          /\ transformedRows[j].listViewData = JsonNull
          /\ engine[k].raises
          /\ transformedRows[k].originalJson = projRows[k].json


(***************************************************************************)
(* More properties of the list-view lookup                                 *)
(***************************************************************************)
\* C12: the definition getListViewQuery selects does not depend on the order
\* in which the store lists the definitions: listing the same registry content
\* in any other order gives the same queryId.
C12_PickIndependentOfOrder ==
    (lookup = "done" /\ glv.readOk) =>
        \A order \in Orders :
            getListViewQuery(listQueries(store, glv.schemaId, order), TRUE).result.queryId
                = glv.result.queryId

\* C13: when more than one definition is flagged, the conflict warning names
\* every flagged definition other than the one returned.
C13_WarningNamesDiscarded ==
    (lookup = "done" /\ glv.readOk /\ Cardinality(FlaggedIn(glv.schemaId)) > 1) =>
        /\ glv.conflictWarning
        /\ glv.named = FlaggedIn(glv.schemaId) \ {glv.result.queryId}

\* C15: a failed registry read is reported to the caller as a failure, so the
\* result of a failed read differs from the result for "no definition flagged".
C15_ReadFailurePropagates ==
    (lookup = "done" /\ ~glv.readOk) =>
        /\ glv.raised \/ glv.result # getListViewQuery(<<>>, TRUE).result
        /\ checkExistingListView(listQueries(store, glv.schemaId, glv.order), FALSE)
              # checkExistingListView(<<>>, TRUE)


(***************************************************************************)
(* More properties of the list-view protocol                               *)
(***************************************************************************)
\* C14: no operation writes back a listView value taken from a snapshot
\* fetched earlier: editing a definition's name or expression leaves every
\* flag as it is in the registry, also when another writer cleared (or set)
\* the definition's flag after the editor listed it.
C14_EditKeepsRegistryFlag ==
    [][\A w \in Writers :
          EditQuery(w) =>
              \A id \in QueryIds :
                  store[id].present => store'[id].listView = store[id].listView]_vars


FitsFlatShape(q) ==
    \/ IsSimplePath(q)
    \/ /\ IsBracketList(q)
       /\ LET entries == TrimmedEntries(SubSeq(q, 2, Len(q) - 1))
          IN  \A i \in 1..Len(entries) : IsSimplePath(entries[i])

\* C17: an object projection whose brace content has a quote, brace or bracket
\* without its partner is classified invalid, with a reason naming that cause.
C17_UnbalancedIsInvalid ==
    (cpc = "done" /\ origin.kind = "unbalanced-projection") =>
        /\ ~analysis.isValidListView
        /\ analysis.reason \notin {Absent, ReasonEmpty}

\* C18 as stated: an object projection from which the scan takes no pair is
\* invalid and its reason states that the projection failed to parse.
C18_ZeroPairsFailedToParse ==
    (cpc = "done" /\ origin.kind = "empty-projection") =>
        /\ ~analysis.isValidListView
        /\ analysis.reason = ReasonFailedProjection

\* C18: an object projection from which the scan takes no pair is invalid,
\* with no columns, and its reason is the general one that recommends the
\* object-projection shape (not the "failed to parse" reason).
C18_ZeroPairsNotSuitable ==
    (cpc = "done" /\ origin.kind = "empty-projection") =>
        /\ ~analysis.isValidListView
        /\ analysis.columns = <<>>
        /\ analysis.reason = ReasonNotSuitable
        /\ analysis.reason # ReasonFailedProjection

C18_Witness ==
    /\ cpc = "done"
    /\ origin.kind = "empty-projection"
    /\ queryText = <<"[", "]", ".", "{", "a", ":", " ", ",", " ", ":", "b", "}">>
    /\ ObjectProjectionMatch(queryText).matched
    /\ analysis.reason = ReasonNotSuitable

\* C19: a non-empty trimmed text that fits none of the three shapes, or that
\* has the outer object-projection form but yields no pair, is invalid with
\* no columns and the reason recommending the object-projection shape.
C19_NoShapeRecommendsProjection ==
    (/\ cpc = "done"
     /\ Trimmed(queryText) # <<>>
     /\ \/ origin.kind = "empty-projection"
        \/ origin.kind = "raw" /\ ~FitsFlatShape(Trimmed(queryText))) =>
        /\ ~analysis.isValidListView
        /\ analysis.columns = <<>>
        /\ analysis.reason = ReasonNotSuitable

\* a bracket list with an entry that is not a path
C19_Witness ==
    /\ cpc = "done"
    /\ origin.kind = "raw"
    /\ queryText = <<"[", "a", ",", "1", "]">>
    /\ ~analysis.isValidListView
    /\ analysis.reason = ReasonNotSuitable

\* C20: every text, whatever its quotes, braces and brackets, gets a result:
\* either valid with a pattern, at least one column and no reason, or invalid
\* with no columns and one of the reason strings.
C20_ClassifyIsTotal ==
    (cpc = "done") =>
        /\ analysis.isValidListView \in BOOLEAN
        /\ analysis.isValidListView =>
            /\ analysis.pattern \in {"object-projection", "simple-property", "property-array"}
            /\ Len(analysis.columns) > 0
            /\ Len(analysis.columnDetails) = Len(analysis.columns)
            /\ analysis.reason = Absent
        /\ ~analysis.isValidListView =>
            /\ analysis.columns = <<>>
            /\ analysis.reason \in {ReasonEmpty, ReasonNotSuitable,
                                    ReasonFailedProjection, ReasonFailedArray}

\* a text with an opening quote that never closes has been given its result
C20_Witness ==
    /\ cpc = "done"
    /\ origin.kind = "unbalanced-projection"
    /\ \E i \in 1..Len(queryText) : queryText[i] = "'"
    /\ analysis.pattern = "object-projection"
    /\ analysis.reason = Absent


(***************************************************************************)
(* C21: every ClassificationResult is well-shaped.  A valid result has at  *)
(* least one column, one columnDetails entry per column whose key is that  *)
(* column and whose expression is non-empty and carries no outer white     *)
(* space, one of the three pattern names, and no reason; an invalid result *)
(* has no columns and has a reason.                                        *)
(***************************************************************************)
C21_ResultWellShaped ==
    (cpc = "done") =>
        IF analysis.isValidListView
        THEN /\ analysis.columns # <<>>
             /\ Len(analysis.columnDetails) = Len(analysis.columns)
             /\ \A i \in 1..Len(analysis.columns) :
                    /\ analysis.columnDetails[i].key = analysis.columns[i]
                    /\ analysis.columnDetails[i].expression # <<>>
                    /\ Trimmed(analysis.columnDetails[i].expression)
                           = analysis.columnDetails[i].expression
             /\ analysis.pattern \in {"object-projection", "simple-property", "property-array"}
             /\ analysis.reason = Absent
        ELSE /\ analysis.columns = <<>>
             /\ analysis.reason # Absent

\* a padded two-pair projection classified valid, keys and expressions differing
C21_Witness ==
    /\ cpc = "done"
    /\ origin.kind = "projection"
    /\ Len(origin.pairs) = 2
    /\ \E i \in 1..Len(queryText) : queryText[i] = " "
    /\ analysis.isValidListView
    /\ Len(analysis.columns) = 2
    /\ analysis.columnDetails[1].expression # analysis.columns[1]


(***************************************************************************)
(* C24: classification trims its input first.  The result for a text is    *)
(* the result for the same text without its leading and trailing white     *)
(* space, and a text that is empty or only white space is invalid with no  *)
(* columns and the reason "Empty query".                                   *)
(***************************************************************************)
C24_TrimsBeforeClassifying ==
    (cpc = "done") =>
        /\ analysis = analyzeListViewQuery(Trimmed(queryText))
        /\ Trimmed(queryText) = <<>> =>
               /\ ~analysis.isValidListView
               /\ analysis.columns = <<>>
               /\ analysis.reason = "Empty query"

\* a text with white space on both sides of a property name, classified valid
C24_Witness ==
    /\ cpc = "done"
    /\ Len(queryText) >= 3
    /\ IsSpace(queryText[1])
    /\ IsSpace(queryText[Len(queryText)])
    /\ Trimmed(queryText) # <<>>
    /\ analysis.isValidListView


\* the text between the first "{" and the closing "}" of a projection
BraceContent(text) ==
    LET t == Trimmed(text)
        open == SetMin({i \in 1..Len(t) : t[i] = "{"})
    IN  SubSeq(t, open + 1, Len(t) - 1)

HasBrace(s) == \E i \in 1..Len(s) : s[i] \in {"{", "}"}

(***************************************************************************)
(* C29: in the object-projection scan a comma or colon separates only at   *)
(* brace depth zero, bracket depth zero and outside quotes, and only the   *)
(* first such colon of a pair ends its key.  So the scan of the rendered   *)
(* pairs gives back exactly those pairs, in order, the last one included,  *)
(* with slices, quoted commas and colons, nested braces and later colons   *)
(* left unchanged inside the expression; and when the text reaches the     *)
(* scan the result's columnDetails are those pairs.                        *)
(***************************************************************************)
C29_ScanSeparators ==
    (cpc = "done" /\ origin.kind = "projection") =>
        /\ ParseObjectContent(BraceContent(queryText)) = origin.pairs
        /\ (\A i \in 1..Len(origin.pairs) : ~HasBrace(origin.pairs[i].expression)) =>
               /\ analysis.isValidListView
               /\ analysis.columnDetails = origin.pairs

\* two pairs: a quoted comma and colon first, a later top-level colon last
C29_Witness ==
    /\ cpc = "done"
    /\ origin.kind = "projection"
    /\ Len(origin.pairs) = 2
    /\ origin.pairs[1].expression = <<"'", "x", ",", "y", ":", "'">>
    /\ origin.pairs[2].expression = <<"b", ":", "c">>
    /\ Len(analysis.columnDetails) = 2
    /\ analysis.columnDetails[2].expression = <<"b", ":", "c">>


(***************************************************************************)
(* C22: the analysis reports not showable whenever no row is structured.   *)
(* For an empty collection the reason is "No data to analyze"; for a       *)
(* non-empty collection whose values are all null, scalars, arrays or      *)
(* empty objects the reason says the results are not structured objects.   *)
(***************************************************************************)
C22_NoStructuredRowNotShowable ==
    (apc = "done" /\ StructuredRows(anRows) = {}) =>
        /\ ~consistency.canShowColumns
        /\ consistency.reason.text =
               IF anRows = <<>> THEN "No data to analyze"
               ELSE "Query results are not structured objects"

\* two rows, an empty object among them, none structured
C22_Witness ==
    /\ apc = "done"
    /\ Len(anRows) >= 2
    /\ StructuredRows(anRows) = {}
    /\ \E i \in 1..Len(anRows) : anRows[i].type = "object"
    /\ consistency.reason.text = "Query results are not structured objects"

\* the rows that are non-array objects having this key
RowsWithKey(rows, c) ==
    {i \in 1..Len(rows) : rows[i].type = "object" /\ c \in KeySet(rows[i])}

(***************************************************************************)
(* C23: every ConsistencyResult is well-shaped.  A reason is present       *)
(* exactly when canShowColumns is false; a showable result has at least    *)
(* one column and each column is a key of at least 80% of the rows; a      *)
(* result that is not showable has no columns and the display falls back   *)
(* to snippets instead of column values.                                   *)
(***************************************************************************)
C23_ConsistencyWellShaped ==
    (apc = "done") =>
        /\ (consistency.reason.text # Absent) <=> ~consistency.canShowColumns
        /\ consistency.canShowColumns =>
               /\ consistency.columns # <<>>
               /\ \A c \in 1..Len(consistency.columns) :
                      5 * Cardinality(RowsWithKey(anRows, consistency.columns[c]))
                          >= 4 * Len(anRows)
        /\ ~consistency.canShowColumns =>
               /\ consistency.columns = <<>>
               /\ displayRowsInteractively(anRows, TRUE) # "values"

\* a structured first row whose key set too few rows share: not showable,
\* with the percentage reason and no columns
C23_Witness ==
    /\ apc = "done"
    /\ Len(anRows) >= 5
    /\ StructuredRows(anRows) # {}
    /\ ~consistency.canShowColumns
    /\ consistency.reason.percent >= 0
    /\ consistency.columns = <<>>


\* the collection with rows i and j exchanged
SwapRows(rows, i, j) ==
    [k \in 1..Len(rows) |-> IF k = i THEN rows[j] ELSE IF k = j THEN rows[i] ELSE rows[k]]

\* the exchanges of two rows that change the collection
Exchanges(rows) ==
    {p \in (1..Len(rows)) \X (1..Len(rows)) : p[1] < p[2] /\ rows[p[1]] # rows[p[2]]}

\* the key set of the first structured row, {} when no row is structured
SampleKeySet(rows) ==
    IF StructuredRows(rows) = {} THEN {} ELSE KeySet(rows[SetMin(StructuredRows(rows))])

\* C30 as claimed: the verdict does not depend on row order, so exchanging
\* any two rows of the collection leaves canShowColumns as it was.
C30_VerdictIgnoresRowOrder ==
    (apc = "done") =>
        \A p \in Exchanges(anRows) :
            analyzeQueryResults(SwapRows(anRows, p[1], p[2])).canShowColumns
                = consistency.canShowColumns

(***************************************************************************)
(* C30, amended: the verdict depends on the key set of the first           *)
(* structured row and on the fraction of rows sharing it.  Exchanging any  *)
(* two rows in a way that leaves the first structured row with the same    *)
(* key set leaves canShowColumns as it was.                                *)
(***************************************************************************)
C30_VerdictFixedBySampleKeySet ==
    (apc = "done") =>
        \A p \in Exchanges(anRows) :
            SampleKeySet(SwapRows(anRows, p[1], p[2])) = SampleKeySet(anRows) =>
                analyzeQueryResults(SwapRows(anRows, p[1], p[2])).canShowColumns
                    = consistency.canShowColumns

\* a showable collection in which the first structured row can be exchanged
\* with a later row that has the same keys in another order
C30_Witness ==
    /\ apc = "done"
    /\ consistency.canShowColumns
    /\ Len(anRows) >= 5
    /\ \E j \in 2..Len(anRows) :
          /\ anRows[j].type = "object"
          /\ anRows[j].keys # anRows[1].keys
          /\ SampleKeySet(SwapRows(anRows, 1, j)) = SampleKeySet(anRows)
          /\ SwapRows(anRows, 1, j) # anRows



\* the single writer is between operations: at a menu, at a definition's
\* detail menu, at the pause after a handler, or at the row list
SoloAtRest == menu["w1"].pc \in {"menu", "detail", "done", "rows"}

(***************************************************************************)
(* C25: with a single writer, no failing store call and a starting         *)
(* registry with at most one flagged definition of the schema, every       *)
(* sequence of create-query, set-as-list-view, remove-list-view,           *)
(* edit-query and delete-query leaves at most one definition of the schema *)
(* flagged after each completed operation.                                 *)
(***************************************************************************)
C25_SoloKeepsAtMostOneFlagged ==
    (~setting.faults /\ setting.exclusive /\ SoloAtRest) =>
        \A s \in MenuSchemas : Cardinality(FlaggedIn(s)) <= 1

\* a replacement carried through: the holder was cleared, the candidate was
\* flagged, and the candidate is the only flagged definition
C25_Witness ==
    /\ ~setting.faults
    /\ setting.exclusive
    /\ menu["w1"].pc = "done"
    /\ menu["w1"].handler = "showSetListView"
    /\ menu["w1"].existing.queryId # 0
    /\ hist["w1"].clearDone
    /\ FlaggedIn(menu["w1"].schema) = {menu["w1"].query.queryId}


(***************************************************************************)
(* C26: with no concurrent writer and no failing store call, once          *)
(* set-as-list-view has reported success for a candidate, the next         *)
(* getListViewQuery of the schema returns that candidate, whatever the     *)
(* registry held when the run started, two or more other flagged           *)
(* definitions included.                                                   *)
(***************************************************************************)
C26_LookupAfterSetReturnsCandidate ==
    (/\ ~setting.faults
     /\ menu["w1"].pc = "rows"
     /\ menu["w1"].handler = "showSetListView"
     /\ hist["w1"].flagWrite # 0
     /\ glv.schemaId = menu["w1"].schema) =>
        glv.result.queryId = hist["w1"].flagWrite


(***************************************************************************)
(* C27: a failed registry read in the lookup of the current holder is not  *)
(* taken for "no definition holds the flag".  A single writer is therefore *)
(* never about to write the candidate's flag, with no holder looked up,    *)
(* while another definition of the schema is flagged, and starting from at *)
(* most one flagged definition it never makes a second one.                *)
(***************************************************************************)
C27_FailedReadWritesNoFlag ==
    setting.exclusive =>
        /\ (menu["w1"].pc = "set_write" /\ menu["w1"].existing.queryId = 0) =>
               FlaggedIn(menu["w1"].schema) \ {menu["w1"].query.queryId} = {}
        /\ (/\ menu["w1"].pc = "create_add"
            /\ menu["w1"].isListView
            /\ menu["w1"].existing.queryId = 0) =>
               FlaggedIn(menu["w1"].schema) = {}
        /\ SoloAtRest => \A s \in MenuSchemas : Cardinality(FlaggedIn(s)) <= 1


\* the single writer confirmed a replacement and its clearing update failed
SoloClearFailed ==
    /\ menu["w1"].existing.queryId # 0
    /\ hist["w1"].declined = ""
    /\ ~hist["w1"].clearDone
    /\ hist["w1"].writes >= 1

(***************************************************************************)
(* C28: when the update clearing the previous holder's flag fails, the     *)
(* candidate is not flagged in that run.  Set-as-list-view returns to the  *)
(* detail menu having issued that one update only; create-query and        *)
(* save-query add the new definition with listView = false.  In both       *)
(* cases the previous holder is still flagged.                             *)
(***************************************************************************)
C28_FailedClearLeavesHolder ==
    /\ (menu["w1"].handler = "showSetListView" /\ SoloClearFailed) =>
           /\ menu["w1"].pc = "detail"
           /\ hist["w1"].writes = 1
           /\ hist["w1"].flagWrite = 0
           /\ ~store[menu["w1"].query.queryId].listView
           /\ store[menu["w1"].existing.queryId].listView
    /\ (menu["w1"].handler = "showCreateQuery" /\ SoloClearFailed) =>
           /\ ~menu["w1"].isListView
           /\ hist["w1"].flagWrite = 0
           /\ menu["w1"].query.queryId # 0 =>
                  /\ store[menu["w1"].query.queryId].present
                  /\ ~store[menu["w1"].query.queryId].listView
           /\ store[menu["w1"].existing.queryId].listView

\* create-query: the clearing update failed and the definition was then added
C28_Witness ==
    /\ menu["w1"].handler = "showCreateQuery"
    /\ SoloClearFailed
    /\ menu["w1"].pc = "done"
    /\ menu["w1"].query.queryId # 0
    /\ hist["w1"].writes = 2
    /\ store[menu["w1"].query.queryId].present

====
